---- MODULE Spec2Model ----
(***************************************************************************)
(* cpuprofile: Profile (lib/profile.js) and ProfileNode                    *)
(* (lib/profile_node.js).  A Profile is constructed from a flat list of    *)
(* ProfileNodes; formattedBottomUpProfile() rebuilds the call tree         *)
(* (translatedRoot), walks it level by level (remainingNodeInfos), merges  *)
(* the visited nodes per callUID (bottomUpNodes) and formats the records.  *)
(*                                                                         *)
(* Numbers.  Every time value of the program is k * samplingInterval /     *)
(* 1000 for an integer k, or NaN.  A finite time is held as the integer    *)
(* numerator n of the exact rational n / (1000 * totalHitCount)            *)
(* milliseconds; IEEE rounding is not modelled.  samplingInterval is held  *)
(* as the pair <<endTime - startTime, totalHitCount>> of the division.     *)
(***************************************************************************)
EXTENDS Integers, Sequences, FiniteSets, TLC

\* Number of flat nodes of a profile (nodes[0] of the source is node 1).
MaxNodes == 4
\* Number of invocations of formattedBottomUpProfile on one Profile.
MaxRuns == 2

\* Tree nodes held in the state.  A forest of MaxNodes nodes with one more
\* child reference unfolds to fewer than 2 * MaxNodes tree nodes unless the
\* references form a cycle, so only a cyclic profile reaches this size.
TreeCap == 2 * MaxNodes

VARIABLES
  nodes,             \* this.nodes: flat ProfileNodes, indexed by id
  startTime,         \* this.startTime
  endTime,           \* this.endTime
  samplingInterval,  \* this.samplingInterval, <<numerator, denominator>>
  pc,                \* position of the caller: new, ready, build, walk, done, error
  tree,              \* the ProfileNodes cloned by translatedRoot; tree[1] is translatedRoot
  pairs,             \* work list of translatedRoot
  profileNodeGroups, \* remainingNodeInfos: the group list
  i,                 \* remainingNodeInfos: index of the outer loop (1-based)
  profileNodeUIDs,   \* remainingNodeInfos: UID counter
  visitedProfileNodesForCallUID, \* remainingNodeInfos: Map callUID -> Set of UIDs
  remainingNodeInfos,            \* remainingNodeInfos: the result list
  bottomUpNodes,     \* records of the latest completed bottomUpNodes
  outputs            \* results returned by formattedBottomUpProfile so far

vars == <<nodes, startTime, endTime, samplingInterval, pc, tree, pairs,
          profileNodeGroups, i, profileNodeUIDs, visitedProfileNodesForCallUID,
          remainingNodeInfos, bottomUpNodes, outputs>>

----------------------------------------------------------------------------
\* Numbers

\* NaN, the result of 0 * Infinity and of 0 * NaN; finite times are >= 0.
NaN == 0 - 1

IsFiniteTime(t) == t # NaN

\* a + b of the source on time values.
Plus(a, b) == IF a = NaN \/ b = NaN THEN NaN ELSE a + b

\* A division result <<n, d>> is finite iff the divisor is not zero.
IsFiniteRatio(r) == r[2] # 0

RECURSIVE SumSeq(_)
SumSeq(s) == IF s = <<>> THEN 0 ELSE Plus(s[1], SumSeq(Tail(s)))

----------------------------------------------------------------------------
\* ProfileNode

Placeholder == "(anonymous function)"

\* The template literal of the ProfileNode constructor.
CallUID(callFrame) ==
  callFrame.functionName \o "@" \o callFrame.scriptId \o ":"
    \o ToString(callFrame.lineNumber)

\* new ProfileNode(id, callFrame, hitCount, children)
NewProfileNode(id, callFrame, hitCount, children) ==
  [id |-> id, callFrame |-> callFrame, hitCount |-> hitCount,
   children |-> children, selfTime |-> 0, totalTime |-> 0,
   callUID |-> CallUID(callFrame)]

\* CloneWithoutChildren copying the callUID instead of computing it again.
CloneKeepingCallUID(node) ==
  [id |-> node.id, callUID |-> node.callUID,
   selfTime |-> node.selfTime, totalTime |-> node.totalTime,
   children |-> <<>>, parent |-> 0, depth |-> 0, UID |-> 0]

\* ProfileNode.isNativeNode
IsNativeNode(node) ==
  /\ node.callFrame.url # ""
  /\ Len(node.callFrame.url) >= Len("native ")
  /\ SubSeq(node.callFrame.url, 1, Len("native ")) = "native "

\* ProfileNode.cloneWithoutChildren: a tree node.  callFrame is shared with the
\* flat node (read through id); callUID is computed again by the constructor
\* from the call frame as it is now.  parent 0 is null/undefined, UID 0 unset.
CloneWithoutChildren(node) ==
  [id |-> node.id, callUID |-> CallUID(node.callFrame),
   selfTime |-> node.selfTime, totalTime |-> node.totalTime,
   children |-> <<>>, parent |-> 0, depth |-> 0, UID |-> 0]

----------------------------------------------------------------------------
\* Inputs

Frame(fn, line, url) ==
  [functionName |-> fn, scriptId |-> "7", lineNumber |-> line, url |-> url]

RootFrame == Frame("(root)", 0, "")

PlainFrame == Frame("f", 1, "app.js")

Frames ==
  { PlainFrame,
    Frame("", 1, "app.js"),
    Frame("", 2, "app.js"),
    Frame("sort", 1, "native array.js") }

NodeIds == 1..MaxNodes

RECURSIVE SetToSeq(_)
SetToSeq(S) ==
  IF S = {} THEN <<>>
  ELSE LET m == CHOOSE x \in S : \A y \in S : x <= y
       IN <<m>> \o SetToSeq(S \ {m})

\* A forest over the ids: up[c] is the node that lists c as a child, 0 for a
\* node that nobody lists.  Node 1 is the root.
Shapes(low) ==
  { up \in [NodeIds -> 0..MaxNodes] :
      /\ up[1] = 0
      /\ \A c \in NodeIds \ {1} : up[c] >= low /\ up[c] < c }

ChildIds(up, p) == SetToSeq({c \in NodeIds : up[c] = p})

RECURSIVE OnFirstPath(_, _, _)
\* a is d, or an ancestor of d reached from d through first children only.
OnFirstPath(up, a, d) ==
  \/ a = d
  \/ /\ up[d] # 0
     /\ ChildIds(up, up[d])[1] = d
     /\ OnFirstPath(up, a, up[d])

RECURSIVE IsAncestorOrSelf(_, _, _)
IsAncestorOrSelf(up, a, d) ==
  \/ a = d
  \/ up[d] # 0 /\ IsAncestorOrSelf(up, a, up[d])

\* One more child reference from -> to, put first in the list of from; to may
\* be MaxNodes + 1, an id no node has.  A reference that closes a cycle is
\* taken where the work list of translatedRoot stays bounded.
ExtraRefs(up) ==
  { e \in NodeIds \X (1..(MaxNodes + 1)) :
      (e[2] \in NodeIds /\ IsAncestorOrSelf(up, e[2], e[1]))
        => /\ OnFirstPath(up, e[2], e[1])
           /\ (e[2] = e[1] => ChildIds(up, e[1]) # <<>>) }

HitPatterns ==
  { [n \in NodeIds |-> 0], [n \in NodeIds |-> 1], [n \in NodeIds |-> n - 1] }

\* Profile.createFromObject: the ProfileNodes of a parsed profile.
WellFormedProfiles ==
  { [n \in NodeIds |->
       NewProfileNode(n, IF n = 1 THEN RootFrame ELSE fr[n], hits[n], ChildIds(up, n))] :
      up \in Shapes(1), fr \in [NodeIds -> Frames], hits \in HitPatterns }

OtherProfiles ==
  { [n \in NodeIds |->
       NewProfileNode(n, IF n = 1 THEN rf ELSE PlainFrame, 1, ChildIds(up, n))] :
      up \in Shapes(0), rf \in {RootFrame, PlainFrame} }
  \cup
  UNION { { [n \in NodeIds |->
              NewProfileNode(n, IF n = 1 THEN RootFrame ELSE PlainFrame, 1,
                             IF n = e[1] THEN <<e[2]>> \o ChildIds(up, n)
                                         ELSE ChildIds(up, n))] :
            e \in ExtraRefs(up) } : up \in Shapes(0) }

----------------------------------------------------------------------------
\* Profile constructor

\* _createIdToNodeMap and Map.get: the node of an id, undefined when absent.
Resolves(ns, id) == id \in DOMAIN ns

RECURSIVE HitCounts(_, _)
HitCounts(ns, n) == IF n = 0 THEN 0 ELSE HitCounts(ns, n - 1) + ns[n].hitCount

\* _determineSamplingInterval: the reduce over hitCount.
TotalHitCount(ns) == HitCounts(ns, Len(ns))

\* _determineSamplingInterval: (endTime - startTime) / totalHitCount.
DetermineSamplingInterval(ns, st, et) == <<et - st, TotalHitCount(ns)>>

\* _assignInitialSelfTimes: hitCount * samplingInterval / 1000, as a numerator
\* over 1000 * totalHitCount.  A zero divisor gives Infinity or NaN for the
\* interval, and 0 * Infinity = 0 * NaN = NaN for every node (all hit counts
\* are 0 then).
InitialSelfTime(hitCount, si) ==
  IF si[2] = 0 THEN NaN ELSE hitCount * si[1]

\* _nameAnonymousFunctions, on one call frame.
NameAnonymousFunction(callFrame) ==
  IF callFrame.functionName = ""
  THEN [callFrame EXCEPT !.functionName = Placeholder]
  ELSE callFrame

Init ==
  /\ nodes \in WellFormedProfiles \cup OtherProfiles
  /\ startTime = 0
  /\ endTime = 2000
  /\ samplingInterval = <<0, 1>>
  /\ pc = "new"
  /\ tree = <<>>
  /\ pairs = <<>>
  /\ profileNodeGroups = <<>>
  /\ i = 1
  /\ profileNodeUIDs = 0
  /\ visitedProfileNodesForCallUID = <<>>
  /\ remainingNodeInfos = <<>>
  /\ bottomUpNodes = <<>>
  /\ outputs = <<>>

\* new Profile(nodes, startTime, endTime, ...)
Construct ==
  /\ pc = "new"
  /\ LET si == DetermineSamplingInterval(nodes, startTime, endTime)
     IN /\ samplingInterval' = si
        /\ nodes' = [n \in DOMAIN nodes |->
                       [nodes[n] EXCEPT
                          !.selfTime = InitialSelfTime(nodes[n].hitCount, si),
                          !.callFrame = NameAnonymousFunction(nodes[n].callFrame)]]
  /\ pc' = "ready"
  /\ UNCHANGED <<startTime, endTime, tree, pairs, profileNodeGroups, i,
                 profileNodeUIDs, visitedProfileNodesForCallUID,
                 remainingNodeInfos, bottomUpNodes, outputs>>

----------------------------------------------------------------------------
\* translatedRoot

\* The pairs pushed for a list of child ids under one parent tree node.  The
\* source keeps the node Map.get returned (undefined for an unknown id); the
\* map never changes after construction, so the id is kept and resolved when
\* the pair is popped.
PairsFor(parentNode, childIds) ==
  [k \in 1..Len(childIds) |-> [parentNode |-> parentNode, sourceNode |-> childIds[k]]]

\* A tree node is held in the state while the tree has room; a node that is
\* not held has index 0, and so has everything cloned below it.
Held(tr, parentNode) == parentNode # 0 /\ Len(tr) < TreeCap

\* parentNode.children.push(targetNode)
AttachChild(tr, parentNode, targetNode) ==
  IF Held(tr, parentNode)
  THEN Append([tr EXCEPT ![parentNode].children = Append(@, Len(tr) + 1)], targetNode)
  ELSE tr

\* FoldSelfTime adding to the root instead of the current parent.
FoldIntoRoot(tr, parentNode, targetNode) ==
  [tr EXCEPT ![1].selfTime = Plus(@, targetNode.selfTime)]

\* parentNode.selfTime += targetNode.selfTime
FoldSelfTime(tr, parentNode, targetNode) ==
  IF parentNode = 0 THEN tr
  ELSE [tr EXCEPT ![parentNode].selfTime = Plus(@, targetNode.selfTime)]

\* Invoke with a bottomUpNodes list that outlives the call.
InvokeKeepingRecords ==
  /\ pc \in {"ready", "done"}
  /\ Len(outputs) < MaxRuns
  /\ remainingNodeInfos' = <<>>
  /\ profileNodeUIDs' = 0
  /\ tree' = <<CloneWithoutChildren(nodes[1])>>
  /\ pairs' = PairsFor(1, nodes[1].children)
  /\ pc' = "build"
  /\ UNCHANGED <<nodes, startTime, endTime, samplingInterval, profileNodeGroups, i,
                 visitedProfileNodesForCallUID, bottomUpNodes, outputs>>

\* formattedBottomUpProfile is called: bottomUpNodes and remainingNodeInfos
\* set up their locals, translatedRoot clones the root and seeds the work list.
Invoke ==
  /\ pc \in {"ready", "done"}
  /\ Len(outputs) < MaxRuns
  /\ bottomUpNodes' = <<>>
  /\ remainingNodeInfos' = <<>>
  /\ profileNodeUIDs' = 0
  /\ tree' = <<CloneWithoutChildren(nodes[1])>>
  /\ pairs' = PairsFor(1, nodes[1].children)
  /\ pc' = "build"
  /\ UNCHANGED <<nodes, startTime, endTime, samplingInterval, profileNodeGroups, i,
                 visitedProfileNodesForCallUID, outputs>>

\* One iteration of the while loop over pairs.  Reading .children of undefined
\* throws a TypeError, which leaves formattedBottomUpProfile.  The assignment
\* sourceNode.children = [] never runs: the constructor made children a list.
BuildStep ==
  /\ pc = "build"
  /\ pairs # <<>>
  /\ LET pair == pairs[Len(pairs)]
         rest == SubSeq(pairs, 1, Len(pairs) - 1)
     IN IF ~Resolves(nodes, pair.sourceNode)
        THEN /\ pc' = "error"
             /\ pairs' = rest
             /\ tree' = tree
        ELSE LET sourceNode == nodes[pair.sourceNode]
                 targetNode == CloneWithoutChildren(sourceNode)
                 native == IsNativeNode(sourceNode)
                 parentNode == IF native THEN pair.parentNode
                               ELSE IF Held(tree, pair.parentNode) THEN Len(tree) + 1
                               ELSE 0
             IN /\ tree' = IF native
                           THEN FoldSelfTime(tree, pair.parentNode, targetNode)
                           ELSE AttachChild(tree, pair.parentNode, targetNode)
                /\ pairs' = rest \o PairsFor(parentNode, sourceNode.children)
                /\ pc' = pc
  /\ UNCHANGED <<nodes, startTime, endTime, samplingInterval, profileNodeGroups, i,
                 profileNodeUIDs, visitedProfileNodesForCallUID,
                 remainingNodeInfos, bottomUpNodes, outputs>>

RECURSIVE SumTotalBeforeFolding(_, _)
\* SumTotal starting from the self time the node was cloned with.
SumTotalBeforeFolding(tr, n) ==
  LET RECURSIVE Over(_)
      Over(k) == IF k = 0 THEN nodes[tr[n].id].selfTime
                 ELSE Plus(Over(k - 1), SumTotalBeforeFolding(tr, tr[n].children[k]))
  IN Over(Len(tr[n].children))

RECURSIVE SumTotal(_, _)
\* sumTotal: the reduce over the children, starting from node.selfTime.
SumTotal(tr, n) ==
  LET RECURSIVE Over(_)
      Over(k) == IF k = 0 THEN tr[n].selfTime
                 ELSE Plus(Over(k - 1), SumTotal(tr, tr[n].children[k]))
  IN Over(Len(tr[n].children))

\* child.parent = parent, for the one node that holds the child.
ParentOf(tr, n) ==
  IF n = 1 THEN 0
  ELSE CHOOSE p \in 1..Len(tr) : \E k \in 1..Len(tr[p].children) : tr[p].children[k] = n

RECURSIVE DepthOf(_, _)
\* translatedRoot.depth = -1; child.depth = parent.depth + 1
DepthOf(tr, n) == IF n = 1 THEN 0 - 1 ELSE DepthOf(tr, ParentOf(tr, n)) + 1

NewVisitedMap == <<>>

\* The work list is empty: sumTotal, then depths and parents; translatedRoot
\* returns into remainingNodeInfos, which builds its group list and its map.
FinishTree ==
  /\ pc = "build"
  /\ pairs = <<>>
  /\ tree' = [n \in 1..Len(tree) |->
                [tree[n] EXCEPT !.totalTime = SumTotal(tree, n),
                                !.parent = ParentOf(tree, n),
                                !.depth = DepthOf(tree, n)]]
  /\ profileNodeGroups' = << <<>>, <<1>> >>
  /\ i' = 1
  /\ visitedProfileNodesForCallUID' = NewVisitedMap
  /\ pc' = "walk"
  /\ UNCHANGED <<nodes, startTime, endTime, samplingInterval, pairs,
                 profileNodeUIDs, remainingNodeInfos, bottomUpNodes, outputs>>

----------------------------------------------------------------------------
\* remainingNodeInfos

\* TotalAccountedFor that never looks at the chain.
NeverAccountedFor(tr, visitedNodes, parentProfileNodes) == FALSE

\* The loop over parentProfileNodes: some node of the chain has its UID in the
\* set of the UIDs visited for this callUID.
TotalAccountedFor(tr, visitedNodes, parentProfileNodes) ==
  \E k \in 1..Len(parentProfileNodes) : tr[parentProfileNodes[k]].UID \in visitedNodes

\* The body of the loop over profileNodes, for one profileNode.  st holds what
\* the loop changes: the tree nodes (their UID), the counter, the map, the
\* result list and the group list.
VisitProfileNode(st, parentProfileNodes, n) ==
  LET assign == st.tree[n].UID = 0
      uids == IF assign THEN st.profileNodeUIDs + 1 ELSE st.profileNodeUIDs
      tr == IF assign THEN [st.tree EXCEPT ![n].UID = uids] ELSE st.tree
      profileNode == tr[n]
      seen == profileNode.callUID \in DOMAIN st.visited
      visitedNodes == IF seen THEN st.visited[profileNode.callUID] ELSE {}
      totalAccountedFor == seen /\ TotalAccountedFor(tr, visitedNodes, parentProfileNodes)
      visited == [c \in DOMAIN st.visited \cup {profileNode.callUID} |->
                    IF c = profileNode.callUID
                    THEN visitedNodes \cup {profileNode.UID}
                    ELSE st.visited[c]]
      info == [ancestor |-> n, focusNode |-> n, totalAccountedFor |-> totalAccountedFor]
  IN [tree |-> tr,
      profileNodeUIDs |-> uids,
      visited |-> IF profileNode.parent # 0 THEN visited ELSE st.visited,
      infos |-> IF profileNode.parent # 0 THEN Append(st.infos, info) ELSE st.infos,
      groups |-> IF profileNode.children # <<>>
                 THEN st.groups \o << parentProfileNodes \o <<n>>, profileNode.children >>
                 ELSE st.groups]

RECURSIVE VisitProfileNodes(_, _, _, _)
\* for (let profileNode of profileNodes), the first k of them.
VisitProfileNodes(st, parentProfileNodes, profileNodes, k) ==
  IF k = 0 THEN st
  ELSE CHOOSE after \in
         { VisitProfileNode(before, parentProfileNodes, profileNodes[k]) :
             before \in {VisitProfileNodes(st, parentProfileNodes, profileNodes, k - 1)} } :
         TRUE

\* One iteration of the loop over profileNodeGroups, which takes two entries.
GroupStep ==
  /\ pc = "walk"
  /\ i <= Len(profileNodeGroups)
  /\ \E st \in
       { VisitProfileNodes(
           [tree |-> tree, profileNodeUIDs |-> profileNodeUIDs,
            visited |-> visitedProfileNodesForCallUID,
            infos |-> remainingNodeInfos, groups |-> profileNodeGroups],
           profileNodeGroups[i], profileNodeGroups[i + 1],
           Len(profileNodeGroups[i + 1])) } :
        /\ tree' = st.tree
        /\ profileNodeUIDs' = st.profileNodeUIDs
        /\ visitedProfileNodesForCallUID' = st.visited
        /\ remainingNodeInfos' = st.infos
        /\ profileNodeGroups' = st.groups
  /\ i' = i + 2
  /\ UNCHANGED <<nodes, startTime, endTime, samplingInterval, pc, pairs,
                 bottomUpNodes, outputs>>

----------------------------------------------------------------------------
\* bottomUpNodes and formattedBottomUpProfile

\* FindRecord that never finds a record.
FindNoRecord(records, callUID) == 0

\* bottomUpNodes.filter(node => node.callUID === ancestor.callUID).pop(): the
\* index of the last record with the callUID, 0 for undefined.
FindRecord(records, callUID) ==
  LET hits == {k \in 1..Len(records) : records[k].callUID = callUID}
  IN IF hits = {} THEN 0 ELSE CHOOSE k \in hits : \A h \in hits : h <= k

\* ProfileNode.clone(ancestor): the record of a callUID.  The call frame stays
\* the one of the flat node (read through id), and the constructor computes
\* callUID from it again.
Clone(node) ==
  [id |-> node.id, callUID |-> CallUID(nodes[node.id].callFrame),
   selfTime |-> node.selfTime, totalTime |-> node.totalTime]

\* MergeNodeInfo without child.selfTime += focusNode.selfTime.
MergeDroppingSelfTime(records, tr, nodeInfo) ==
  LET child == FindRecord(records, tr[nodeInfo.ancestor].callUID)
  IN IF child # 0
     THEN [records EXCEPT
             ![child].totalTime = IF nodeInfo.totalAccountedFor THEN @
                                  ELSE Plus(@, tr[nodeInfo.focusNode].totalTime)]
     ELSE Append(records, Clone(tr[nodeInfo.ancestor]))

\* The body of the loop of bottomUpNodes, for one nodeInfo.  ancestor and
\* focusNode are the same node, so the branch ancestor !== focusNode is dead.
MergeNodeInfo(records, tr, nodeInfo) ==
  LET ancestor == tr[nodeInfo.ancestor]
      focusNode == tr[nodeInfo.focusNode]
      child == FindRecord(records, ancestor.callUID)
  IN IF child # 0
     THEN [records EXCEPT
             ![child].selfTime = Plus(@, focusNode.selfTime),
             ![child].totalTime = IF nodeInfo.totalAccountedFor THEN @
                                  ELSE Plus(@, focusNode.totalTime)]
     ELSE Append(records, Clone(ancestor))

RECURSIVE MergeNodeInfos(_, _, _, _)
\* for (let nodeInfo of this.remainingNodeInfos), the first k of them, into
\* the list bottomUpNodes started with.
MergeNodeInfos(records, tr, infos, k) ==
  IF k = 0 THEN records
  ELSE CHOOSE after \in
         { MergeNodeInfo(before, tr, infos[k]) :
             before \in {MergeNodeInfos(records, tr, infos, k - 1)} } :
         TRUE

\* formattedBottomUpProfile: the map over bottomUpNodes.
Format(ns, records) ==
  [k \in 1..Len(records) |->
     [functionName |-> ns[records[k].id].callFrame.functionName,
      selfTime |-> records[k].selfTime,
      totalTime |-> records[k].totalTime]]

\* The group list is exhausted: remainingNodeInfos returns, bottomUpNodes
\* merges and formattedBottomUpProfile returns the formatted records.
Aggregate ==
  /\ pc = "walk"
  /\ i > Len(profileNodeGroups)
  /\ \E records \in
       { MergeNodeInfos(bottomUpNodes, tree, remainingNodeInfos,
                        Len(remainingNodeInfos)) } :
        /\ bottomUpNodes' = records
        /\ outputs' = Append(outputs, Format(nodes, records))
  /\ pc' = "done"
  /\ UNCHANGED <<nodes, startTime, endTime, samplingInterval, tree, pairs,
                 profileNodeGroups, i, profileNodeUIDs,
                 visitedProfileNodesForCallUID, remainingNodeInfos>>

----------------------------------------------------------------------------
Next == Construct \/ Invoke \/ BuildStep \/ FinishTree \/ GroupStep \/ Aggregate

Spec == Init /\ [][Next]_vars

\* The program is synchronous and runs on: a step that can be taken is taken.
FairSpec == Spec /\ WF_vars(Next)

----------------------------------------------------------------------------
\* What the properties speak of

\* The tree is complete: its total times, parents and depths are assigned.
TreeBuilt == pc \in {"walk", "done"}

\* formattedBottomUpProfile has returned.
Returned == pc = "done"

NonRoot(tr) == 2..Len(tr)

\* The sum of F over a finite set of integers.
SumOver(S, F(_)) ==
  LET s == SetToSeq(S) IN SumSeq([k \in 1..Len(s) |-> F(s[k])])

RECURSIVE AncestorsOf(_, _)
\* The proper ancestors of a tree node, the root included.
AncestorsOf(tr, n) ==
  IF tr[n].parent = 0 THEN {} ELSE {tr[n].parent} \cup AncestorsOf(tr, tr[n].parent)

\* No occurrence of the identity of n lies above n (the root is no occurrence).
Outermost(tr, n) ==
  \A a \in AncestorsOf(tr, n) \ {1} : tr[a].callUID # tr[n].callUID

Occurrences(tr, callUID) == {n \in NonRoot(tr) : tr[n].callUID = callUID}

Range(s) == {s[k] : k \in 1..Len(s)}

Count(x, s) == Cardinality({k \in 1..Len(s) : s[k] = x})

\* The input function name was empty: the callUID of the flat node is the one
\* its constructor computed, before the name was replaced.
WasAnonymous(node) ==
  node.callUID = CallUID([node.callFrame EXCEPT !.functionName = ""])

AllChildIdsResolve(ns) ==
  \A n \in DOMAIN ns : \A k \in 1..Len(ns[n].children) : Resolves(ns, ns[n].children[k])

ValidInput(ns) ==
  /\ AllChildIdsResolve(ns)
  /\ TotalHitCount(ns) > 0
  /\ ~IsNativeNode(ns[1])

RECURSIVE NativeSelfTimeBelow(_, _)
\* The self time of the native nodes reached from node id through native nodes
\* only.
NativeSelfTimeBelow(ns, id) ==
  LET RECURSIVE Over(_)
      Over(k) ==
        IF k = 0 THEN 0
        ELSE LET c == ns[id].children[k]
             IN IF IsNativeNode(ns[c])
                THEN Plus(Over(k - 1), Plus(ns[c].selfTime, NativeSelfTimeBelow(ns, c)))
                ELSE Over(k - 1)
  IN Over(Len(ns[id].children))

RECURSIVE NonNativeBelow(_, _)
\* The ids of the non-native nodes reached from node id through native nodes
\* only, one entry for every way of reaching them.
NonNativeBelow(ns, id) ==
  LET RECURSIVE Over(_)
      Over(k) ==
        IF k = 0 THEN <<>>
        ELSE LET c == ns[id].children[k]
             IN Over(k - 1) \o (IF IsNativeNode(ns[c]) THEN NonNativeBelow(ns, c) ELSE <<c>>)
  IN Over(Len(ns[id].children))

ChildIdsOfTreeNode(tr, n) == [k \in 1..Len(tr[n].children) |-> tr[tr[n].children[k]].id]

----------------------------------------------------------------------------
\* C1: the record of an identity has as totalTime the sum of totalTime over the
\* non-root occurrences of the identity that have no occurrence of the same
\* identity above them: the outer occurrence alone under recursion, every
\* occurrence when the identity does not repeat along a path.
C1_TotalTimeOfOutermostOccurrences ==
  Returned =>
    \A n \in NonRoot(tree) :
      \E k \in 1..Len(bottomUpNodes) :
        /\ bottomUpNodes[k].callUID = tree[n].callUID
        /\ bottomUpNodes[k].totalTime =
             SumOver({m \in Occurrences(tree, tree[n].callUID) : Outermost(tree, m)},
                     LAMBDA m : tree[m].totalTime)

\* A recursive identity with time in the inner occurrence, and the same
\* identity once more in another branch.
C1_Witness ==
  /\ Returned
  /\ IsFiniteTime(tree[1].totalTime)
  /\ \E n, m \in NonRoot(tree) :
       /\ tree[n].callUID = tree[m].callUID
       /\ m \in AncestorsOf(tree, n)
       /\ tree[n].totalTime > 0
  /\ \E n, m \in NonRoot(tree) :
       /\ n # m
       /\ tree[n].callUID = tree[m].callUID
       /\ Outermost(tree, n) /\ Outermost(tree, m)

\* C2 as stated: for valid inputs the self times of the records add up to the
\* initial self times of all non-native flat nodes.
C2_SelfTimeOfNonNativeFlatNodes ==
  (Returned /\ ValidInput(nodes)) =>
    SumOver(1..Len(bottomUpNodes), LAMBDA k : bottomUpNodes[k].selfTime)
      = SumOver({n \in DOMAIN nodes : ~IsNativeNode(nodes[n])},
                LAMBDA n : nodes[n].selfTime)

RECURSIVE SelfTimeReached(_, _, _)
\* The initial self time of the flat nodes reached from the children of node
\* id, once for every way of reaching them; atRoot says that no non-native node
\* lies between the root and these children, and a native node reached so is
\* left out (its self time goes to the root).
SelfTimeReached(ns, id, atRoot) ==
  LET RECURSIVE Over(_)
      Over(k) ==
        IF k = 0 THEN 0
        ELSE LET c == ns[id].children[k]
                 native == IsNativeNode(ns[c])
                 own == IF native /\ atRoot THEN 0 ELSE ns[c].selfTime
             IN Plus(Over(k - 1), Plus(own, SelfTimeReached(ns, c, atRoot /\ native)))
  IN Over(Len(ns[id].children))

\* C2 as amended: for valid inputs the self times of the records add up to the
\* initial self times of the flat nodes reached from the root, native or not,
\* without the root and without the native nodes folded into the root.
C2_SelfTimeOfReachedNodes ==
  (Returned /\ ValidInput(nodes)) =>
    SumOver(1..Len(bottomUpNodes), LAMBDA k : bottomUpNodes[k].selfTime)
      = SelfTimeReached(nodes, 1, TRUE)

\* An identity with two occurrences and a native node with self time below a
\* non-root node.
C2_Witness ==
  /\ Returned /\ ValidInput(nodes)
  /\ Len(bottomUpNodes) < Len(tree) - 1
  /\ \E n \in NonRoot(tree) : tree[n].selfTime > nodes[tree[n].id].selfTime

\* C3: no native node below the root of the tree and none among the records;
\* every tree node carries its own self time plus the self time of the native
\* nodes reached from it through native nodes only, and has as children the
\* non-native nodes reached so.
C3_NativeFramesFolded ==
  TreeBuilt =>
    /\ \A n \in NonRoot(tree) : ~IsNativeNode(nodes[tree[n].id])
    /\ \A k \in 1..Len(bottomUpNodes) : ~IsNativeNode(nodes[bottomUpNodes[k].id])
    /\ \A n \in 1..Len(tree) :
         /\ tree[n].selfTime
              = Plus(nodes[tree[n].id].selfTime, NativeSelfTimeBelow(nodes, tree[n].id))
         /\ \A c \in DOMAIN nodes :
              Count(c, ChildIdsOfTreeNode(tree, n))
                = Count(c, NonNativeBelow(nodes, tree[n].id))

\* A non-root node above two native nodes in a row that have self time.
C3_Witness ==
  /\ Returned
  /\ \E n \in NonRoot(tree) :
       \E c \in Range(nodes[tree[n].id].children) :
         /\ IsNativeNode(nodes[c])
         /\ nodes[c].selfTime > 0
         /\ \E d \in Range(nodes[c].children) :
              IsNativeNode(nodes[d]) /\ nodes[d].selfTime > 0

\* C4: one record for every callUID of a non-root tree node, no two records
\* with the same callUID, and no record taken from the root.
C4_OneRecordPerCallUID ==
  Returned =>
    /\ \A k, l \in 1..Len(bottomUpNodes) :
         bottomUpNodes[k].callUID = bottomUpNodes[l].callUID => k = l
    /\ {bottomUpNodes[k].callUID : k \in 1..Len(bottomUpNodes)}
         = {tree[n].callUID : n \in NonRoot(tree)}
    /\ \A k \in 1..Len(bottomUpNodes) :
         /\ bottomUpNodes[k].id # tree[1].id
         /\ \E n \in NonRoot(tree) :
              /\ tree[n].id = bottomUpNodes[k].id
              /\ tree[n].callUID = bottomUpNodes[k].callUID

\* Two records, one of them for an identity with two occurrences.
C4_Witness ==
  /\ Returned
  /\ Len(bottomUpNodes) >= 2
  /\ \E n, m \in NonRoot(tree) : n # m /\ tree[n].callUID = tree[m].callUID

\* C5: every tree node, the root included, has totalTime = selfTime + the sum
\* of the totalTime of its children, selfTime being the one after folding.
C5_TotalTimeIsSelfPlusChildren ==
  TreeBuilt =>
    \A n \in 1..Len(tree) :
      tree[n].totalTime
        = Plus(tree[n].selfTime,
               SumOver(1..Len(tree[n].children),
                       LAMBDA k : tree[tree[n].children[k]].totalTime))

\* A non-root node with a child, into which a native node was folded after it
\* was cloned.
C5_Witness ==
  /\ TreeBuilt
  /\ \E n \in NonRoot(tree) :
       /\ tree[n].children # <<>>
       /\ tree[n].selfTime > nodes[tree[n].id].selfTime

\* C6 as stated: a total hit count of zero makes the construction fail, and no
\* non-finite sampling interval or time is stored or returned.
C6_ZeroHitCountRejected ==
  /\ (pc # "new" /\ TotalHitCount(nodes) = 0) => pc = "error"
  /\ pc # "new" =>
       /\ IsFiniteRatio(samplingInterval)
       /\ \A n \in DOMAIN nodes : IsFiniteTime(nodes[n].selfTime)
       /\ \A r \in 1..Len(outputs) : \A k \in 1..Len(outputs[r]) :
            IsFiniteTime(outputs[r][k].selfTime) /\ IsFiniteTime(outputs[r][k].totalTime)

\* C7 as stated: with a child id that no node has, formattedBottomUpProfile
\* returns no output array.
C7_DanglingChildIdRejected ==
  ~AllChildIdsResolve(nodes) => outputs = <<>>

\* C8 as stated: with all child ids resolving, an invocation that has started
\* returns or fails.
C8_InvocationTerminates ==
  (pc = "build" /\ AllChildIdsResolve(nodes)) ~> (pc \in {"done", "error"})

\* C9: every invocation on the same Profile returns the same records.
C9_SameRecordsAgain ==
  \A r \in 1..Len(outputs) : outputs[r] = outputs[1]

\* A second invocation has returned, for a tree with a folded native node and
\* a recursive identity.
C9_Witness ==
  /\ Returned
  /\ Len(outputs) >= 2
  /\ \E n \in 1..Len(tree) : tree[n].selfTime > nodes[tree[n].id].selfTime
  /\ \E k \in 1..Len(remainingNodeInfos) : remainingNodeInfos[k].totalAccountedFor

\* C10: the non-root tree nodes whose input function name was empty and that
\* share scriptId and lineNumber have one record, found under the callUID made
\* from the placeholder name, and its functionName is the placeholder.
C10_AnonymousFunctionsCollapse ==
  Returned =>
    \A n \in NonRoot(tree) :
      WasAnonymous(nodes[tree[n].id]) =>
        LET frame == nodes[tree[n].id].callFrame
            uid == CallUID([frame EXCEPT !.functionName = Placeholder])
            out == outputs[Len(outputs)]
        IN /\ Cardinality({k \in 1..Len(bottomUpNodes) : bottomUpNodes[k].callUID = uid}) = 1
           /\ \A k \in 1..Len(bottomUpNodes) :
                LET rf == nodes[bottomUpNodes[k].id].callFrame
                IN (WasAnonymous(nodes[bottomUpNodes[k].id])
                      /\ rf.scriptId = frame.scriptId
                      /\ rf.lineNumber = frame.lineNumber)
                     => /\ bottomUpNodes[k].callUID = uid
                        /\ out[k].functionName = Placeholder
           /\ tree[n].callUID = uid

\* Two anonymous nodes on one line and a third on another line.
C10_Witness ==
  /\ Returned
  /\ \E n, m, o \in NonRoot(tree) :
       /\ n # m
       /\ WasAnonymous(nodes[tree[n].id])
       /\ WasAnonymous(nodes[tree[m].id])
       /\ WasAnonymous(nodes[tree[o].id])
       /\ tree[n].callUID = tree[m].callUID
       /\ tree[n].callUID # tree[o].callUID

====
